---- MODULE Spec2Model ----
(***************************************************************************)
(* Model of rhsm/certificate2.py: the certificate factory (CertFactory),   *)
(* the Version wrapper, the Certificate entity classes and the Content     *)
(* constructor.  Python values are tagged records; a Python str is a       *)
(* sequence of one-character strings; an OID is a sequence of naturals; an *)
(* Extensions tree is a sequence of <<oid, value>> pairs in insertion      *)
(* order.  A call either returns a value or raises: Returned / Raised.     *)
(***************************************************************************)
EXTENDS Integers, Sequences, FiniteSets, TLC

VARIABLES
    x509,           \* the raw certificate handed to create_from_pem
    result,         \* outcome of the create_from_pem call on x509
    frame,          \* locals of the finished create_from_pem call
    version_str,    \* argument of Version(...)
    version,        \* outcome of Version(version_str)
    content_kwargs, \* keyword arguments of Content(...)
    content,        \* outcome of Content(**content_kwargs)
    cert,           \* a Certificate object queried for validity
    utcnow,         \* the wall clock read by datetime.utcnow()
    on_date,        \* argument of the last is_valid / is_expired call
    answer,         \* the last is_valid / is_expired call and what it returned
    obj,            \* a Certificate object that is written and deleted
    files,          \* the files on disk, by path
    call            \* the last write / delete call on obj and its outcome

vars == <<x509, result, frame, version_str, version, content_kwargs, content,
          cert, utcnow, on_date, answer, obj, files, call>>

createVars == <<x509, result, frame>>
versionVars == <<version_str, version>>
contentVars == <<content_kwargs, content>>
validityVars == <<cert, utcnow, on_date, answer>>
persistVars == <<obj, files, call>>

----------------------------------------------------------------------------
(* Bounds of the model *)

MaxVerLen == 4
MaxEnabledInt == 2
MaxExt == 4
MaxTime == 6
Day == 2

----------------------------------------------------------------------------
(* Python values and call outcomes *)

None == [t |-> "none"]
PyStr(s) == [t |-> "str", v |-> s]
PyIntVal(n) == [t |-> "int", v |-> n]
PyBool(b) == [t |-> "bool", v |-> b]

Returned(v) == [status |-> "returned", value |-> v]
Raised(e) == [status |-> "raised", error |-> e]
\* Exception propagation: a raised outcome ends the computation, a returned
\* value is handed on.
Bind(r, F(_)) == IF r.status = "raised" THEN r ELSE F(r.value)

\* The M2Crypto X509 object of a loaded certificate.
X509Handle == [t |-> "X509"]

NotCalled == [status |-> "idle"]
Pending == [status |-> "pending"]

\* Python ==: numbers (int and bool) compare by numeric value, strings with
\* strings, None with None; values of unrelated types are unequal.
NumOf(a) == IF a.t = "bool" THEN (IF a.v THEN 1 ELSE 0) ELSE a.v
IsNum(a) == a.t \in {"int", "bool"}
PyEq(a, b) ==
    IF IsNum(a) /\ IsNum(b) THEN NumOf(a) = NumOf(b)
    ELSE a.t = b.t /\ a = b

\* Python truthiness of a value.
Truthy(a) ==
    CASE a.t = "none" -> FALSE
      [] a.t = "str" -> Len(a.v) > 0
      [] a.t \in {"int", "bool"} -> NumOf(a) # 0
      [] a.t = "list" -> Len(a.v) > 0
      [] OTHER -> TRUE

PyList(xs) == [t |-> "list", v |-> xs]

----------------------------------------------------------------------------
(* Strings *)

Digits == <<"0", "1", "2", "3", "4", "5", "6", "7", "8", "9">>
IsDigit(c) == \E i \in 1..10 : Digits[i] = c
DigitVal(c) == (CHOOSE i \in 1..10 : Digits[i] = c) - 1
IsSpace(c) == c = " "

\* str.split(sep) for a one-character separator: always at least one piece.
RECURSIVE SplitFrom(_, _, _, _)
SplitFrom(s, sep, i, cur) ==
    IF i > Len(s) THEN <<cur>>
    ELSE IF s[i] = sep THEN <<cur>> \o SplitFrom(s, sep, i + 1, <<>>)
    ELSE SplitFrom(s, sep, i + 1, Append(cur, s[i]))

Split(s, sep) == SplitFrom(s, sep, 1, <<>>)

\* str.strip()
RECURSIVE LStrip(_)
LStrip(s) == IF Len(s) > 0 /\ IsSpace(s[1]) THEN LStrip(Tail(s)) ELSE s
RECURSIVE RStrip(_)
RStrip(s) ==
    IF Len(s) > 0 /\ IsSpace(s[Len(s)]) THEN RStrip(SubSeq(s, 1, Len(s) - 1))
    ELSE s
Strip(s) == RStrip(LStrip(s))

RECURSIVE DecimalValue(_)
DecimalValue(ds) ==
    IF Len(ds) = 0 THEN 0
    ELSE 10 * DecimalValue(SubSeq(ds, 1, Len(ds) - 1)) + DigitVal(ds[Len(ds)])

AllDigits(s) == Len(s) > 0 /\ \A i \in 1..Len(s) : IsDigit(s[i])

\* The builtin int(str): surrounding whitespace is stripped, one optional
\* sign, then one or more decimal digits; anything else is a ValueError.
Unsigned(body) ==
    IF Len(body) > 0 /\ body[1] \in {"+", "-"} THEN Tail(body) ELSE body

Negative(body) == Len(body) > 0 /\ body[1] = "-"

IntOfStripped(body) ==
    IF ~AllDigits(Unsigned(body)) THEN Raised("ValueError")
    ELSE Returned(IF Negative(body) THEN 0 - DecimalValue(Unsigned(body))
                  ELSE DecimalValue(Unsigned(body)))

int(s) == IntOfStripped(Strip(s))

----------------------------------------------------------------------------
(* class Version *)

\* The loop of Version.__init__ converting the segments in order; the first
\* segment that int() rejects raises.
RECURSIVE ConvertSegments(_)
ConvertSegments(segs) ==
    IF Len(segs) = 0 THEN Returned(<<>>)
    ELSE Bind(int(Head(segs)), LAMBDA h :
         Bind(ConvertSegments(Tail(segs)), LAMBDA rest :
         Returned(<<h>> \o rest)))

\* Version with the minor component taken from the first segment.
Version_minor_from_major(s) ==
    Bind(ConvertSegments(Split(s, ".")), LAMBDA segments :
    Returned([version_str |-> s,
              segments |-> segments,
              major |-> segments[1],
              minor |-> IF Len(segments) > 1 THEN segments[1] ELSE 0]))

Version(s) ==
    Bind(ConvertSegments(Split(s, ".")), LAMBDA segments :
    Returned([version_str |-> s,
              segments |-> segments,
              major |-> segments[1],
              minor |-> IF Len(segments) > 1 THEN segments[2] ELSE 0]))

----------------------------------------------------------------------------
(* Version(...) applied to bounded strings *)

VersionAlphabet == {"0", "1", "2", "3", ".", "-", "+", " ", "x"}

RECURSIVE StringsUpTo(_, _)
StringsUpTo(A, n) ==
    IF n = 0 THEN {<<>>}
    ELSE LET shorter == StringsUpTo(A, n - 1)
         IN shorter \cup {Append(s, c) : s \in {t \in shorter : Len(t) = n - 1}, c \in A}

VersionStrings == StringsUpTo(VersionAlphabet, MaxVerLen)

IdleCreate == x509 = None /\ result = NotCalled /\ frame = None
IdleVersion == version_str = <<>> /\ version = NotCalled
IdleContent == content_kwargs = None /\ content = NotCalled
IdleValidity == cert = None /\ utcnow = 0 /\ on_date = None /\ answer = None
IdlePersist == obj = None /\ files = <<>> /\ call = None

VersionInit ==
    /\ version_str \in VersionStrings
    /\ version = Pending
    /\ IdleCreate /\ IdleContent /\ IdleValidity /\ IdlePersist

NewVersion ==
    /\ version = Pending
    /\ version' = Version(version_str)
    /\ UNCHANGED <<version_str, createVars, contentVars, validityVars, persistVars>>

VersionNext == NewVersion

VersionSpec == VersionInit /\ [][VersionNext]_vars

----------------------------------------------------------------------------
(* class Content *)

CertificateException == "CertificateException"

\* enabled not in (None, 0, 1, "0", "1"): membership by Python ==.
EnabledAccepted ==
    <<None, PyIntVal(0), PyIntVal(1), PyStr(<<"0">>), PyStr(<<"1">>)>>

InTuple(x, tup) == \E i \in 1..Len(tup) : PyEq(x, tup[i])

\* int(q) without the "if q" test: int(None) raises TypeError.
IntIfSet_unconditional(q) ==
    IF q = None THEN Raised("TypeError")
    ELSE IF q.t = "str"
         THEN Bind(int(q.v), LAMBDA n : Returned(PyIntVal(n)))
         ELSE Returned(PyIntVal(NumOf(q)))

\* int(q) if q else None
IntIfSet(q) ==
    IF ~Truthy(q) THEN Returned(None)
    ELSE IF q.t = "str"
         THEN Bind(int(q.v), LAMBDA n : Returned(PyIntVal(n)))
         ELSE Returned(PyIntVal(NumOf(q)))

\* The assignments of Content.__init__ once the enabled flag is decoded.
ContentFields(kw, enabled) ==
    Bind(IntIfSet(kw.quantity), LAMBDA quantity :
    Bind(IntIfSet(kw.flex_quantity), LAMBDA flex_quantity :
    Returned([t |-> "Content",
              name |-> kw.name,
              label |-> kw.label,
              vendor |-> kw.vendor,
              url |-> kw.url,
              gpg |-> kw.gpg,
              enabled |-> PyBool(enabled),
              metadata_expire |-> kw.metadata_expire,
              required_tags |-> IF Truthy(kw.required_tags)
                                THEN kw.required_tags ELSE PyList(<<>>),
              quantity |-> quantity,
              flex_quantity |-> flex_quantity])))

\* Content that takes an absent enabled flag for disabled.
Content_absent_disabled(kw) ==
    IF ~InTuple(kw.enabled, EnabledAccepted) THEN Raised(CertificateException)
    ELSE ContentFields(kw, PyEq(kw.enabled, PyStr(<<"1">>))
                           \/ PyEq(kw.enabled, PyBool(TRUE)))

Content(kw) ==
    IF ~InTuple(kw.enabled, EnabledAccepted) THEN Raised(CertificateException)
    ELSE ContentFields(kw, kw.enabled = None
                           \/ PyEq(kw.enabled, PyStr(<<"1">>))
                           \/ PyEq(kw.enabled, PyBool(TRUE)))

----------------------------------------------------------------------------
(* Content(...) applied to bounded keyword arguments *)

EnabledValues ==
    {None, PyBool(TRUE), PyBool(FALSE)}
    \cup {PyIntVal(n) : n \in -1..MaxEnabledInt}
    \cup {PyStr(s) : s \in {<<>>, <<"0">>, <<"1">>, <<"2">>, <<"0", "1">>,
                            <<"m", "a", "y", "b", "e">>,
                            <<"T", "r", "u", "e">>}}

QuantityValues == {None, PyStr(<<>>), PyStr(<<"1", "0">>), PyStr(<<"q">>)}

TagValues == {None, PyList(<<>>), PyList(<<PyStr(<<"a">>)>>)}

ContentKwargs ==
    [name : {None, PyStr(<<"c">>)},
     label : {PyStr(<<"l">>)},
     quantity : QuantityValues,
     flex_quantity : QuantityValues,
     vendor : {None},
     url : {PyStr(<<"/", "u">>)},
     gpg : {None},
     enabled : EnabledValues,
     metadata_expire : {None},
     required_tags : TagValues]

ContentInit ==
    /\ content_kwargs \in ContentKwargs
    /\ content = Pending
    /\ IdleCreate /\ IdleVersion /\ IdleValidity /\ IdlePersist

NewContent ==
    /\ content = Pending
    /\ content' = Content(content_kwargs)
    /\ UNCHANGED <<content_kwargs, createVars, versionVars, validityVars, persistVars>>

ContentNext == NewContent

ContentSpec == ContentInit /\ [][ContentNext]_vars

----------------------------------------------------------------------------
(* rhsm.certificate: OID, Extensions, parse_tags, DateRange,               *)
(* get_datetime_from_x509; rhsm.connection: safe_int.  These modules are   *)
(* imported by certificate2.py (lines 20-22) and are not part of the       *)
(* source tree; they are modelled from their specified behaviour.          *)

\* OID(str): the dotted string as its sequence of integer segments.
OID(s) ==
    LET parts == Split(s, ".")
    IN [i \in 1..Len(parts) |-> DecimalValue(parts[i])]

OidLtrim(oid, n) == SubSeq(oid, n + 1, Len(oid))
OidRtrim(oid, n) == SubSeq(oid, 1, Len(oid) - n)

\* A pattern is a dotted string whose segments are integers or "*"; it
\* matches an identifier of the same length segment by segment.
OidMatch(oid, pattern) ==
    LET parts == Split(pattern, ".")
    IN /\ Len(parts) = Len(oid)
       /\ \A i \in 1..Len(parts) :
            parts[i] = <<"*">> \/ DecimalValue(parts[i]) = oid[i]

StartsWith(oid, prefix) ==
    Len(oid) > Len(prefix) /\ SubSeq(oid, 1, Len(prefix)) = prefix

RECURSIVE ExtLtrim(_, _)
ExtLtrim(ext, n) ==
    IF Len(ext) = 0 THEN <<>>
    ELSE LET e == Head(ext)
         IN (IF Len(e.oid) > n
             THEN <<[oid |-> OidLtrim(e.oid, n), value |-> e.value]>>
             ELSE <<>>) \o ExtLtrim(Tail(ext), n)

RECURSIVE ExtBranch(_, _)
ExtBranch(ext, root) ==
    IF Len(ext) = 0 THEN <<>>
    ELSE LET e == Head(ext)
         IN (IF StartsWith(e.oid, root)
             THEN <<[oid |-> OidLtrim(e.oid, Len(root)), value |-> e.value]>>
             ELSE <<>>) \o ExtBranch(Tail(ext), root)

RECURSIVE ExtFind(_, _)
ExtFind(ext, pattern) ==
    IF Len(ext) = 0 THEN <<>>
    ELSE (IF OidMatch(Head(ext).oid, pattern) THEN <<Head(ext)>> ELSE <<>>)
         \o ExtFind(Tail(ext), pattern)

ExtContains(ext, dotted) ==
    LET oid == OID(dotted) IN \E i \in 1..Len(ext) : ext[i].oid = oid

\* extensions[dotted]; callers test membership first.
ExtItem(ext, dotted) ==
    LET oid == OID(dotted)
    IN ext[CHOOSE i \in 1..Len(ext) : ext[i].oid = oid].value

\* extensions.get(dotted): the value, or None when the entry is absent.
ExtGet(ext, dotted) ==
    IF ExtContains(ext, dotted) THEN PyStr(ExtItem(ext, dotted)) ELSE None

\* parse_tags: the comma-delimited value as a list of trimmed substrings;
\* an absent or empty value gives the empty list.
parse_tags(tag_str) ==
    IF ~Truthy(tag_str) THEN PyList(<<>>)
    ELSE LET parts == Split(tag_str.v, ",")
         IN PyList([i \in 1..Len(parts) |-> PyStr(Strip(parts[i]))])

\* safe_int: int(value), or None when the conversion raises.
safe_int(value) ==
    IF value.t # "str" THEN None
    ELSE LET r == int(value.v)
         IN IF r.status = "raised" THEN None ELSE PyIntVal(r.value)

get_datetime_from_x509(asn1) == [t |-> "datetime", v |-> asn1.v]

DateRange(begin, end) == [begin |-> begin, end |-> end]

\* DateRange.has_date: the date lies in the closed interval.
has_date(range, date) == range.begin.v <= date.v /\ date.v <= range.end.v

----------------------------------------------------------------------------
(* module constants of certificate2.py *)

REDHAT_OID_NAMESPACE ==
    <<"1", ".", "3", ".", "6", ".", "1", ".", "4", ".", "1", ".",
      "2", "3", "1", "2", ".", "9">>
ORDER_NAMESPACE == <<"4">>
EXT_ORDER_NAME == <<"4", ".", "1">>
EXT_CERT_VERSION == <<"6">>

PRODUCT_CERT == 1
ENTITLEMENT_CERT == 2
IDENTITY_CERT == 3

----------------------------------------------------------------------------
(* Entity classes *)

Certificate(kw) ==
    [x509 |-> kw.x509,
     path |-> kw.path,
     version |-> kw.version,
     serial |-> kw.serial,
     start |-> kw.start,
     end |-> kw.end,
     valid_range |-> DateRange(kw.start, kw.end)]

\* Certificate.is_valid / is_expired: on_date when given, else the wall clock.
EffectiveDate(date, now) ==
    IF date # None THEN date ELSE [t |-> "datetime", v |-> now]

is_valid(self, date, now) == has_date(self.valid_range, EffectiveDate(date, now))

\* is_expired with a non-strict comparison.
is_expired_non_strict(self, date, now) ==
    self.valid_range.end.v <= EffectiveDate(date, now).v

is_expired(self, date, now) == self.valid_range.end.v < EffectiveDate(date, now).v

\* The names bound in the module namespace of certificate2.py: its imports
\* (lines 16-22), its constants (lines 24-33) and its classes.
ModuleNames ==
    {"datetime", "X509", "safe_int", "Extensions", "OID", "DateRange", "GMT",
     "get_datetime_from_x509", "parse_tags",
     "REDHAT_OID_NAMESPACE", "ORDER_NAMESPACE", "EXT_ORDER_NAME",
     "EXT_CERT_VERSION", "PRODUCT_CERT", "ENTITLEMENT_CERT", "IDENTITY_CERT",
     "CertFactory", "Version", "Certificate", "IdentityCertificate",
     "ProductCertificate1", "EntitlementCertificate1",
     "EntitlementCertificate2", "Product", "Order", "Content",
     "CertificateException"}

\* A file on disk: absent, or present with the chunks written to it.
Absent == [exists |-> FALSE]
File(data) == [exists |-> TRUE, data |-> data]

\* x509.as_pem(): the PEM text of the handle.
as_pem(x) == [pem |-> x]

\* open(path, 'w'): the empty path cannot be opened; any other path is
\* created or truncated.
OpenForWriting(path, fs) ==
    IF path.v = <<>> THEN Raised("IOError")
    ELSE Returned([fs EXCEPT ![path] = File(<<>>)])

\* Certificate.write: open, write the PEM text, close, then set self.path.
\* The file is already truncated when self.x509 is None and .as_pem fails.
write(self, path, fs) ==
    IF OpenForWriting(path, fs).status = "raised"
    THEN [outcome |-> OpenForWriting(path, fs), self |-> self, files |-> fs]
    ELSE IF self.x509 = None
    THEN [outcome |-> Raised("AttributeError"), self |-> self,
          files |-> OpenForWriting(path, fs).value]
    ELSE [outcome |-> Returned(None),
          self |-> [self EXCEPT !.path = path],
          files |-> [fs EXCEPT ![path] = File(<<as_pem(self.x509)>>)]]

\* os.unlink(path): removes the file, OSError when there is none.
unlink(path, fs) ==
    IF path \in DOMAIN fs /\ fs[path].exists
    THEN [outcome |-> Returned(None), files |-> [fs EXCEPT ![path] = Absent]]
    ELSE [outcome |-> Raised("OSError"), files |-> fs]

\* Certificate.delete: nothing when self.path is falsy; otherwise the name
\* os is looked up in the module namespace, where nothing binds it.
delete(self, fs) ==
    IF ~Truthy(self.path) THEN [outcome |-> Returned(None), files |-> fs]
    ELSE IF "os" \notin ModuleNames
    THEN [outcome |-> Raised("NameError"), files |-> fs]
    ELSE unlink(self.path, fs)

IdentityCertificate(alt_name, subject, kw) ==
    [class |-> "IdentityCertificate", core |-> Certificate(kw),
     subject |-> subject, alt_name |-> alt_name]

ProductCertificate1(products, kw) ==
    [class |-> "ProductCertificate1", core |-> Certificate(kw),
     products |-> IF products = None THEN PyList(<<>>) ELSE products]

EntitlementCertificate1(order, content_list, products, kw) ==
    [class |-> "EntitlementCertificate1", core |-> Certificate(kw),
     products |-> IF products = None THEN PyList(<<>>) ELSE products,
     order |-> order, content |-> content_list]

Product(id, name, ver, arch, provided_tags) ==
    [t |-> "Product", id |-> id, name |-> name, version |-> ver, arch |-> arch,
     provided_tags |-> IF provided_tags = None THEN PyList(<<>>)
                       ELSE provided_tags]

Order(kw) == [t |-> "Order"] @@ kw

----------------------------------------------------------------------------
(* class CertFactory *)

\* __read_alt_name: the subjectAltName value, None when the handle has none.
read_alt_name(x) == x.alt_name

\* __read_subject: the subject attributes that have an entry, by short name.
read_subject(x) ==
    LET keys == {k \in DOMAIN x.subject : Len(x.subject[k]) > 0}
    IN [k \in keys |-> PyStr(x.subject[k][1])]

\* __create_identity_cert passes no version: Certificate.__init__ defaults
\* it to None.
IdentityKwargs(x, path) ==
    [x509 |-> x.handle, path |-> path, version |-> None,
     serial |-> x.serial,
     start |-> get_datetime_from_x509(x.not_before),
     end |-> get_datetime_from_x509(x.not_after)]

create_identity_cert(extensions, x, path) ==
    Returned(IdentityCertificate(read_alt_name(x), read_subject(x),
                                 IdentityKwargs(x, path)))

\* The Product(...) call of the loop body, on the branch of one product.
ProductFrom(product_id, ext) ==
    Product(PyIntVal(product_id),
            ExtGet(ext, <<"1">>),
            ExtGet(ext, <<"2">>),
            ExtGet(ext, <<"3">>),
            parse_tags(ExtGet(ext, <<"4">>)))

\* The product loop taking the id from the first segment of the match.
RECURSIVE ProductsOf_first_segment(_, _)
ProductsOf_first_segment(matches, extensions) ==
    IF Len(matches) = 0 THEN <<>>
    ELSE <<ProductFrom(Head(matches).oid[1],
                       ExtBranch(extensions, OidRtrim(Head(matches).oid, 1)))>>
         \o ProductsOf_first_segment(Tail(matches), extensions)

\* The loop of __parse_v1_products: root = oid.rtrim(1), product_id = oid[1]
\* (the second segment), ext = extensions.branch(root).
RECURSIVE ProductsOf(_, _)
ProductsOf(matches, extensions) ==
    IF Len(matches) = 0 THEN <<>>
    ELSE <<ProductFrom(Head(matches).oid[2],
                       ExtBranch(extensions, OidRtrim(Head(matches).oid, 1)))>>
         \o ProductsOf(Tail(matches), extensions)

parse_v1_products(extensions) ==
    PyList(ProductsOf(ExtFind(extensions, <<"1", ".", "*", ".", "1">>),
                      extensions))

\* The Order(...) call of __parse_v1_order with the quantity unconverted.
OrderFrom_raw_quantity(order_extensions) ==
    Order([name |-> ExtGet(order_extensions, <<"1">>),
           number |-> ExtGet(order_extensions, <<"2">>),
           sku |-> ExtGet(order_extensions, <<"3">>),
           subscription |-> ExtGet(order_extensions, <<"4">>),
           quantity |-> ExtGet(order_extensions, <<"5">>),
           virt_limit |-> ExtGet(order_extensions, <<"8">>),
           socket_limit |-> ExtGet(order_extensions, <<"9">>),
           contract_number |-> ExtGet(order_extensions, <<"1", "0">>),
           quantity_used |-> ExtGet(order_extensions, <<"1", "1">>),
           warning_period |-> ExtGet(order_extensions, <<"1", "2">>),
           account_number |-> ExtGet(order_extensions, <<"1", "3">>),
           provides_management |-> ExtGet(order_extensions, <<"1", "4">>),
           support_level |-> ExtGet(order_extensions, <<"1", "5">>),
           support_type |-> ExtGet(order_extensions, <<"1", "6">>),
           stacking_id |-> ExtGet(order_extensions, <<"1", "7">>),
           virt_only |-> ExtGet(order_extensions, <<"1", "8">>)])

\* The Order(...) call of __parse_v1_order on the order branch.
OrderFrom(order_extensions) ==
    Order([name |-> ExtGet(order_extensions, <<"1">>),
           number |-> ExtGet(order_extensions, <<"2">>),
           sku |-> ExtGet(order_extensions, <<"3">>),
           subscription |-> ExtGet(order_extensions, <<"4">>),
           quantity |-> safe_int(ExtGet(order_extensions, <<"5">>)),
           virt_limit |-> ExtGet(order_extensions, <<"8">>),
           socket_limit |-> ExtGet(order_extensions, <<"9">>),
           contract_number |-> ExtGet(order_extensions, <<"1", "0">>),
           quantity_used |-> ExtGet(order_extensions, <<"1", "1">>),
           warning_period |-> ExtGet(order_extensions, <<"1", "2">>),
           account_number |-> ExtGet(order_extensions, <<"1", "3">>),
           provides_management |-> ExtGet(order_extensions, <<"1", "4">>),
           support_level |-> ExtGet(order_extensions, <<"1", "5">>),
           support_type |-> ExtGet(order_extensions, <<"1", "6">>),
           stacking_id |-> ExtGet(order_extensions, <<"1", "7">>),
           virt_only |-> ExtGet(order_extensions, <<"1", "8">>)])

parse_v1_order(extensions) ==
    OrderFrom(ExtBranch(extensions, OID(ORDER_NAMESPACE)))

\* The Content(...) call of the loop body, on the branch of one entry.
ContentFrom(content_ext) ==
    Content([name |-> ExtGet(content_ext, <<"1">>),
             label |-> ExtGet(content_ext, <<"2">>),
             quantity |-> ExtGet(content_ext, <<"3">>),
             flex_quantity |-> ExtGet(content_ext, <<"4">>),
             vendor |-> ExtGet(content_ext, <<"5">>),
             url |-> ExtGet(content_ext, <<"6">>),
             gpg |-> ExtGet(content_ext, <<"7">>),
             enabled |-> ExtGet(content_ext, <<"8">>),
             metadata_expire |-> ExtGet(content_ext, <<"9">>),
             required_tags |-> parse_tags(ExtGet(content_ext, <<"1", "0">>))])

\* The loop of __parse_v1_content: the first Content(...) that raises ends it.
RECURSIVE ContentOf(_, _)
ContentOf(ents, extensions) ==
    IF Len(ents) = 0 THEN Returned(<<>>)
    ELSE Bind(ContentFrom(ExtBranch(extensions, OidRtrim(Head(ents).oid, 1))),
              LAMBDA c :
         Bind(ContentOf(Tail(ents), extensions), LAMBDA rest :
         Returned(<<c>> \o rest)))

\* parse_v1_content that swallows a failing entry and returns no content.
ContentOrNothing(r) ==
    IF r.status = "raised" THEN Returned(PyList(<<>>))
    ELSE Returned(PyList(r.value))

parse_v1_content_swallow(extensions) ==
    ContentOrNothing(
        ContentOf(ExtFind(extensions, <<"2", ".", "*", ".", "1", ".", "1">>),
                  extensions))

parse_v1_content(extensions) ==
    Bind(ContentOf(ExtFind(extensions, <<"2", ".", "*", ".", "1", ".", "1">>),
                   extensions),
         LAMBDA content_list : Returned(PyList(content_list)))

\* The keyword arguments every builder reads from the raw handle.
CoreKwargs(ver, x, path) ==
    [x509 |-> x.handle, path |-> path, version |-> ver,
     serial |-> x.serial,
     start |-> get_datetime_from_x509(x.not_before),
     end |-> get_datetime_from_x509(x.not_after)]

create_v1_prod_cert(ver, extensions, x, path) ==
    Returned(ProductCertificate1(parse_v1_products(extensions),
                                 CoreKwargs(ver, x, path)))

\* order, then content (which may raise), then products.
create_v1_ent_cert(ver, extensions, x, path) ==
    Bind(parse_v1_content(extensions), LAMBDA content_list :
    Returned(EntitlementCertificate1(parse_v1_order(extensions),
                                     content_list,
                                     parse_v1_products(extensions),
                                     CoreKwargs(ver, x, path))))

\* get_cert_type without the emptiness test.
get_cert_type_no_identity(extensions) ==
    IF ExtContains(extensions, EXT_ORDER_NAME) THEN ENTITLEMENT_CERT
    ELSE PRODUCT_CERT

get_cert_type(extensions) ==
    IF Len(extensions) = 0 THEN IDENTITY_CERT
    ELSE IF ExtContains(extensions, EXT_ORDER_NAME) THEN ENTITLEMENT_CERT
    ELSE PRODUCT_CERT

\* An if/elif chain without else: a type it does not name falls off the end
\* of the function, which returns None.
DispatchV1(cert_type, ver, extensions, x, path) ==
    IF cert_type = IDENTITY_CERT
    THEN create_identity_cert(extensions, x, path)
    ELSE IF cert_type = ENTITLEMENT_CERT
    THEN create_v1_ent_cert(ver, extensions, x, path)
    ELSE IF cert_type = PRODUCT_CERT
    THEN create_v1_prod_cert(ver, extensions, x, path)
    ELSE Returned(None)

create_v1_cert(ver, extensions, x, path) ==
    DispatchV1(get_cert_type(extensions), ver, extensions, x, path)

\* extensions.ltrim(len(redhat_oid))
redhat_oid == OID(REDHAT_OID_NAMESPACE)
TrimToNamespace(raw) == ExtLtrim(raw, Len(redhat_oid))

\* absence of the version extension implies "1.0"
CertVersionStr(extensions) ==
    IF ExtContains(extensions, EXT_CERT_VERSION)
    THEN ExtItem(extensions, EXT_CERT_VERSION)
    ELSE <<"1", ".", "0">>

\* create_from_pem from the trimmed extensions on.  For a major version other
\* than 1 the function reaches "return cert", a name that was never bound:
\* NameError.
CreateFromExtensions(extensions, x, path) ==
    Bind(Version(CertVersionStr(extensions)), LAMBDA ver :
    IF ver.major = 1 THEN create_v1_cert(ver, extensions, x, path)
    ELSE Raised("NameError"))

\* create_from_pem on the extensions of x in insertion order raw.
create_from_pem(raw, x, path) ==
    CreateFromExtensions(TrimToNamespace(raw), x, path)

\* The locals of that call when it ends.
FrameWith(extensions, ver) ==
    [extensions |-> extensions,
     cert_version_str |-> CertVersionStr(extensions),
     version |-> ver,
     cert_type |-> IF ver.status = "returned" /\ ver.value.major = 1
                   THEN PyIntVal(get_cert_type(extensions))
                   ELSE None]

FrameOf(extensions) == FrameWith(extensions, Version(CertVersionStr(extensions)))

CreateFrame(raw) == FrameOf(TrimToNamespace(raw))

----------------------------------------------------------------------------
(* create_from_pem / create_from_file applied to bounded certificates *)

VendorOid == redhat_oid
Ext(oid, value) == [oid |-> oid, value |-> value]

\* Extensions a certificate may carry: the version field, order fields,
\* product and content entries under the vendor root, and two extensions
\* outside it (one shorter than the vendor root, one longer).
ExtPool ==
    { Ext(VendorOid \o <<6>>, <<"1", ".", "2">>),
      Ext(VendorOid \o <<6>>, <<"3", ".", "2">>),
      Ext(VendorOid \o <<6>>, <<"x">>),
      Ext(VendorOid \o <<4, 1>>, <<"S", "u", "b">>),
      Ext(VendorOid \o <<4, 5>>, <<"5">>),
      Ext(VendorOid \o <<4, 5>>, <<"a", "b", "c">>),
      Ext(VendorOid \o <<1, 1, 1>>, <<"A", "w", "e", "s", "o", "m", "e", " ", "O", "S">>),
      Ext(VendorOid \o <<1, 1, 4>>, <<"a", ",", " ", "b">>),
      Ext(VendorOid \o <<1, 2, 1>>, <<"B">>),
      Ext(VendorOid \o <<2, 1, 1, 1>>, <<"c">>),
      Ext(VendorOid \o <<2, 1, 1, 8>>, <<"m", "a", "y", "b", "e">>),
      Ext(VendorOid \o <<2, 2, 1, 1>>, <<"d">>),
      Ext(<<2, 5, 29, 14>>, <<"k">>),
      Ext(<<1, 3, 6, 1, 4, 1, 311, 20, 2, 3>>, <<"u">>) }

\* The sets of at most n pool entries no two of which share an identifier.
ExtSetsUpTo(n) ==
    {s \in SUBSET ExtPool :
        /\ Cardinality(s) <= n
        /\ \A p, q \in s : p.oid = q.oid => p = q}

\* The insertion orders the Extensions constructor may give an unordered
\* collection of extension entries.
RECURSIVE Orders(_)
Orders(S) ==
    IF S = {} THEN {<<>>}
    ELSE UNION {{<<e>> \o rest : rest \in Orders(S \ {e})} : e \in S}

RawCerts ==
    {[handle |-> X509Handle,
      exts |-> e,
      serial |-> PyIntVal(Cardinality(e) + 1),
      not_before |-> [t |-> "asn1", v |-> 2],
      not_after |-> [t |-> "asn1", v |-> 6],
      subject |-> [CN |-> <<<<"i", "d">>>>, UID |-> <<>>],
      alt_name |-> None] :
        e \in ExtSetsUpTo(MaxExt)}

Paths == {PyStr(<<"/", "c">>)}

Init ==
    /\ x509 \in RawCerts
    /\ result = Pending
    /\ frame = None
    /\ IdleVersion /\ IdleContent /\ IdleValidity /\ IdlePersist

CreateFromPem ==
    /\ result = Pending
    /\ \E raw \in Orders(x509.exts) :
         /\ result' = create_from_pem(raw, x509, None)
         /\ frame' = CreateFrame(raw)
    /\ UNCHANGED <<x509, versionVars, contentVars, validityVars, persistVars>>

CreateFromFile ==
    /\ result = Pending
    /\ \E raw \in Orders(x509.exts), path \in Paths :
         /\ result' = create_from_pem(raw, x509, path)
         /\ frame' = CreateFrame(raw)
    /\ UNCHANGED <<x509, versionVars, contentVars, validityVars, persistVars>>

Next == CreateFromPem \/ CreateFromFile

Spec == Init /\ [][Next]_vars

----------------------------------------------------------------------------
(* is_valid / is_expired applied to bounded certificates and dates *)

Times == 0..MaxTime
DateTime(n) == [t |-> "datetime", v |-> n]

ValidityCerts ==
    {Certificate([x509 |-> X509Handle, path |-> None, version |-> None,
                  serial |-> PyIntVal(1),
                  start |-> DateTime(b), end |-> DateTime(e)]) :
        b \in Times, e \in Times}

ValidityInit ==
    /\ cert \in ValidityCerts
    /\ utcnow = 0
    /\ on_date = None
    /\ answer = None
    /\ IdleCreate /\ IdleVersion /\ IdleContent /\ IdlePersist

Dates == {None} \cup {DateTime(n) : n \in Times}

IsValid ==
    /\ cert # None
    /\ \E d \in Dates :
         /\ on_date' = d
         /\ answer' = [op |-> "is_valid",
                       gmt |-> EffectiveDate(d, utcnow),
                       value |-> is_valid(cert, d, utcnow)]
    /\ UNCHANGED <<cert, utcnow, createVars, versionVars, contentVars, persistVars>>

IsExpired ==
    /\ cert # None
    /\ \E d \in Dates :
         /\ on_date' = d
         /\ answer' = [op |-> "is_expired",
                       gmt |-> EffectiveDate(d, utcnow),
                       value |-> is_expired(cert, d, utcnow)]
    /\ UNCHANGED <<cert, utcnow, createVars, versionVars, contentVars, persistVars>>

Tick ==
    /\ cert # None
    /\ utcnow < MaxTime
    /\ utcnow' = utcnow + 1
    /\ UNCHANGED <<cert, on_date, answer, createVars, versionVars, contentVars, persistVars>>

ValidityNext == IsValid \/ IsExpired \/ Tick

ValiditySpec == ValidityInit /\ [][ValidityNext]_vars

----------------------------------------------------------------------------
(* write / delete applied to bounded certificates and files *)

MaxFiles == 2

FilePaths == {PyStr(<<"/", Digits[n + 1]>>) : n \in 1..MaxFiles}

\* Certificate objects as the constructor builds them: with or without the
\* raw handle, with or without a path.
PersistCerts ==
    {Certificate([x509 |-> x, path |-> p, version |-> None,
                  serial |-> PyIntVal(1),
                  start |-> DateTime(2), end |-> DateTime(6)]) :
        x \in {X509Handle, None}, p \in {None} \cup FilePaths}

PersistInit ==
    /\ obj \in PersistCerts
    /\ files \in [FilePaths -> {Absent, File(<<"old">>)}]
    /\ call = None
    /\ IdleCreate /\ IdleVersion /\ IdleContent /\ IdleValidity

Write ==
    /\ obj # None
    /\ \E path \in FilePaths \cup {PyStr(<<>>)} :
         /\ obj' = write(obj, path, files).self
         /\ files' = write(obj, path, files).files
         /\ call' = [op |-> "write", path |-> path, before |-> obj,
                     files_before |-> files,
                     outcome |-> write(obj, path, files).outcome]
    /\ UNCHANGED <<createVars, versionVars, contentVars, validityVars>>

Delete ==
    /\ obj # None
    /\ files' = delete(obj, files).files
    /\ call' = [op |-> "delete", path |-> obj.path, before |-> obj,
                files_before |-> files,
                outcome |-> delete(obj, files).outcome]
    /\ UNCHANGED <<obj, createVars, versionVars, contentVars, validityVars>>

PersistNext == Write \/ Delete

PersistSpec == PersistInit /\ [][PersistNext]_vars

\* Version(...) on its own and inside the factory.
VersionFactoryInit == Init \/ VersionInit
VersionFactoryNext == CreateFromPem \/ CreateFromFile \/ NewVersion
VersionFactorySpec == VersionFactoryInit /\ [][VersionFactoryNext]_vars

----------------------------------------------------------------------------
(* Properties of the factory *)

Called == result.status \in {"returned", "raised"}
MajorOne == frame.version.status = "returned" /\ frame.version.value.major = 1

\* The trimmed tree read as a mapping, without the Extensions operations.
HasOid(ext, oid) == \E i \in 1..Len(ext) : ext[i].oid = oid
ValueAt(ext, oid) == ext[CHOOSE i \in 1..Len(ext) : ext[i].oid = oid].value
FieldAt(ext, oid) == IF HasOid(ext, oid) THEN PyStr(ValueAt(ext, oid)) ELSE None

ExpectedType(ext) ==
    IF Len(ext) = 0 THEN IDENTITY_CERT
    ELSE IF HasOid(ext, <<4, 1>>) THEN ENTITLEMENT_CERT
    ELSE PRODUCT_CERT

ClassOfType(type) ==
    CASE type = IDENTITY_CERT -> "IdentityCertificate"
      [] type = ENTITLEMENT_CERT -> "EntitlementCertificate1"
      [] type = PRODUCT_CERT -> "ProductCertificate1"

IsCertificate(v) == v # None /\ "class" \in DOMAIN v

\* C1: for a major-version-1 certificate, create classifies the trimmed tree
\* as IDENTITY when it is empty, else ENTITLEMENT when 4.1 is present, else
\* PRODUCT, and whatever it returns is the variant of that classification;
\* only the entitlement build can fail.
C1_ClassificationPrecedence ==
    (Called /\ MajorOne) =>
        LET expected == ExpectedType(frame.extensions)
        IN /\ frame.cert_type = PyIntVal(expected)
           /\ result.status = "returned" =>
                /\ IsCertificate(result.value)
                /\ result.value.class = ClassOfType(expected)
           /\ result.status = "raised" => expected = ENTITLEMENT_CERT

\* An entitlement certificate returned for a tree that also holds a product.
C1_Witness ==
    /\ Called /\ MajorOne
    /\ result.status = "returned"
    /\ result.value.class = "EntitlementCertificate1"
    /\ HasOid(frame.extensions, <<4, 1>>)
    /\ HasOid(frame.extensions, <<1, 1, 1>>)

UnderVendorRoot(oid) ==
    Len(oid) > Len(VendorOid) /\ SubSeq(oid, 1, Len(VendorOid)) = VendorOid

\* C2: a certificate with no extension under the vendor root has an empty
\* trimmed tree and is returned as an IdentityCertificate, whatever other
\* extensions it carries.
C2_NoVendorExtensionIsIdentity ==
    (Called /\ \A e \in x509.exts : ~UnderVendorRoot(e.oid)) =>
        /\ frame.extensions = <<>>
        /\ result.status = "returned"
        /\ result.value.class = "IdentityCertificate"

\* The error kinds the claim allows for an unsupported format version.
UnsupportedVersionErrors == {"UnsupportedVersion", CertificateException}

\* C3: when the parsed version has a major component other than 1, create
\* raises an error of the unsupported-version kind and returns nothing.
C3_UnsupportedMajorIsTypedError ==
    (Called /\ frame.version.status = "returned"
            /\ frame.version.value.major # 1) =>
        /\ result.status = "raised"
        /\ result.error \in UnsupportedVersionErrors

----------------------------------------------------------------------------
(* Properties of Version *)

VersionCalled == version.status \in {"returned", "raised"}

Components(s) == Split(s, ".")

\* A string of one or more dot-separated runs of decimal digits.
DottedNaturals(s) ==
    \A i \in 1..Len(Components(s)) : AllDigits(Components(s)[i])

\* C4: for a dot-separated string of non-negative integers major is the first
\* component and minor the second, or 0 when there is only one ("3.2" gives
\* 3 and 2); a trimmed tree without the version field at 6 makes the factory
\* parse "1.0", major 1 and minor 0.
C4_MajorMinorAndDefault ==
    /\ (VersionCalled /\ DottedNaturals(version_str)) =>
         /\ version.status = "returned"
         /\ version.value.major = DecimalValue(Components(version_str)[1])
         /\ version.value.minor =
              IF Len(Components(version_str)) > 1
              THEN DecimalValue(Components(version_str)[2]) ELSE 0
    /\ (VersionCalled /\ version_str = <<"3", ".", "2">>) =>
         /\ version.status = "returned"
         /\ version.value.major = 3
         /\ version.value.minor = 2
    /\ (Called /\ ~HasOid(frame.extensions, <<6>>)) =>
         /\ frame.cert_version_str = <<"1", ".", "0">>
         /\ frame.version.status = "returned"
         /\ frame.version.value.major = 1
         /\ frame.version.value.minor = 0
    /\ (Called /\ HasOid(frame.extensions, <<6>>)) =>
         frame.cert_version_str = ValueAt(frame.extensions, <<6>>)

C4_Witness ==
    /\ version_str = <<"3", ".", "2">>
    /\ version.status = "returned"
    /\ version.value.minor = 2

\* A component int() takes for a non-negative integer.
NonNegativeComponent(c) == int(c).status = "returned" /\ int(c).value >= 0

\* C5: Version fails whenever the string is empty or some component is not a
\* non-negative integer (an empty component, a negative number such as "-1").
C5_RejectsNonNaturalComponents ==
    (VersionCalled /\ \E i \in 1..Len(Components(version_str)) :
                         ~NonNegativeComponent(Components(version_str)[i])) =>
        version.status = "raised"

----------------------------------------------------------------------------
(* Properties of Content *)

ContentCalled == content.status \in {"returned", "raised"}

EnabledTrueInputs == {None, PyIntVal(1), PyStr(<<"1">>), PyBool(TRUE)}
EnabledFalseInputs == {PyIntVal(0), PyStr(<<"0">>), PyBool(FALSE)}

\* C6: absent, 1, "1" and True decode to enabled == True; 0, "0" and False to
\* enabled == False; any other enabled value makes Content(...) raise the
\* invalid-value error (CertificateException) and no Content exists.
C6_EnabledDecoding ==
    ContentCalled =>
        LET e == content_kwargs.enabled
        IN /\ e \in EnabledTrueInputs =>
                /\ content.status = "returned" => content.value.enabled = PyBool(TRUE)
                /\ content.status = "raised" => content.error # CertificateException
           /\ e \in EnabledFalseInputs =>
                /\ content.status = "returned" => content.value.enabled = PyBool(FALSE)
                /\ content.status = "raised" => content.error # CertificateException
           /\ e \notin EnabledTrueInputs \cup EnabledFalseInputs =>
                content = Raised(CertificateException)

C6_Witness ==
    /\ content_kwargs # None
    /\ content_kwargs.enabled = None
    /\ content.status = "returned"
    /\ content.value.enabled = PyBool(TRUE)

----------------------------------------------------------------------------
(* Properties of the builders *)

ContentMatches(ext) ==
    {i \in 1..Len(ext) :
        /\ Len(ext[i].oid) = 4
        /\ ext[i].oid[1] = 2 /\ ext[i].oid[3] = 1 /\ ext[i].oid[4] = 1}

\* The content entry found at index i carries an enabled flag (field 8 of
\* its branch) that is neither "0" nor "1".
InvalidEnabledAt(ext, i) ==
    LET flag == <<2, ext[i].oid[2], 1, 8>>
    IN HasOid(ext, flag) /\ ValueAt(ext, flag) \notin {<<"0">>, <<"1">>}

HasInvalidContent(ext) == \E i \in ContentMatches(ext) : InvalidEnabledAt(ext, i)

\* C7 as stated: every create call returns a certificate object or raises,
\* never None, and whenever a content entry of the tree has an invalid
\* enabled flag the call raises.
C7_InvalidContentAlwaysFails ==
    Called =>
        /\ result.status = "returned" => IsCertificate(result.value)
        /\ HasInvalidContent(frame.extensions) => result.status = "raised"

\* C7 amended: every create call returns a certificate object or raises,
\* never None; when the tree holds the order name 4.1 (so content is read)
\* and a content entry has an invalid enabled flag the call raises, with
\* CertificateException when the version is a major-1 version; a tree
\* without 4.1 is not read for content and a major-1 call on it returns.
C7_EntitlementInvalidContentFails ==
    Called =>
        /\ result.status = "returned" => IsCertificate(result.value)
        /\ (HasInvalidContent(frame.extensions)
              /\ HasOid(frame.extensions, <<4, 1>>)) =>
             /\ result.status = "raised"
             /\ MajorOne => result = Raised(CertificateException)
        /\ (MajorOne /\ ~HasOid(frame.extensions, <<4, 1>>)) =>
             result.status = "returned"

\* Two content entries, one of them invalid, and the whole call failed.
C7_Witness ==
    /\ Called /\ MajorOne
    /\ Cardinality(ContentMatches(frame.extensions)) >= 2
    /\ HasInvalidContent(frame.extensions)
    /\ result = Raised(CertificateException)

\* The Order fields other than quantity and their paths under 4.
OrderStringFields ==
    <<<<"name", 1>>, <<"number", 2>>, <<"sku", 3>>, <<"subscription", 4>>,
      <<"virt_limit", 8>>, <<"socket_limit", 9>>, <<"contract_number", 10>>,
      <<"quantity_used", 11>>, <<"warning_period", 12>>,
      <<"account_number", 13>>, <<"provides_management", 14>>,
      <<"support_level", 15>>, <<"support_type", 16>>, <<"stacking_id", 17>>,
      <<"virt_only", 18>>>>

IsEntitlement ==
    /\ result.status = "returned"
    /\ IsCertificate(result.value)
    /\ result.value.class = "EntitlementCertificate1"

\* C8: the order quantity is the field at 4.5 as an integer ("5" gives 5),
\* None when the field is not numeric ("abc") or absent, and neither case
\* raises: an entitlement build fails only on its content; every other
\* Order field is the raw string of its path, or None.
C8_OrderQuantityLenient ==
    /\ IsEntitlement =>
         LET ext == frame.extensions
             order == result.value.order
         IN /\ (HasOid(ext, <<4, 5>>) /\ ValueAt(ext, <<4, 5>>) = <<"5">>) =>
                 order.quantity = PyIntVal(5)
            /\ (HasOid(ext, <<4, 5>>) /\ ValueAt(ext, <<4, 5>>) = <<"a", "b", "c">>) =>
                 order.quantity = None
            /\ ~HasOid(ext, <<4, 5>>) => order.quantity = None
            /\ \A k \in 1..Len(OrderStringFields) :
                 order[OrderStringFields[k][1]] =
                     FieldAt(ext, <<4, OrderStringFields[k][2]>>)
    /\ (Called /\ MajorOne /\ HasOid(frame.extensions, <<4, 1>>)
          /\ ~HasInvalidContent(frame.extensions)) => IsEntitlement

C8_Witness ==
    /\ IsEntitlement
    /\ HasOid(frame.extensions, <<4, 5>>)
    /\ ValueAt(frame.extensions, <<4, 5>>) = <<"a", "b", "c">>
    /\ result.value.order.quantity = None
    /\ result.value.order.name = PyStr(<<"S", "u", "b">>)

ProductMatches(ext) ==
    {i \in 1..Len(ext) :
        /\ Len(ext[i].oid) = 3
        /\ ext[i].oid[1] = 1 /\ ext[i].oid[3] = 1}

\* The k-th match in tree order.
NthMatch(ext, k) ==
    CHOOSE i \in ProductMatches(ext) :
        Cardinality({j \in ProductMatches(ext) : j < i}) = k - 1

ExpectedTags(field) ==
    IF field = None THEN PyList(<<>>)
    ELSE IF field = PyStr(<<"a", ",", " ", "b">>)
    THEN PyList(<<PyStr(<<"a">>), PyStr(<<"b">>)>>)
    ELSE PyList(<<field>>)

HasProducts ==
    /\ result.status = "returned"
    /\ IsCertificate(result.value)
    /\ result.value.class \in {"ProductCertificate1", "EntitlementCertificate1"}

\* C9: the products of a returned product or entitlement certificate are one
\* per tree entry matching 1.*.1, in the order of the matches in the tree;
\* each has the wildcard segment as id and the values at 1.<id>.1 .. 1.<id>.4
\* as name, version, architecture and provided tags.  The tree {1.1.1:
\* "Awesome OS"} gives a product certificate with that one product, id 1.
C9_ProductExtraction ==
    /\ HasProducts =>
         LET ext == frame.extensions
             products == result.value.products.v
         IN /\ Len(products) = Cardinality(ProductMatches(ext))
            /\ \A k \in 1..Len(products) :
                 LET id == ext[NthMatch(ext, k)].oid[2]
                 IN /\ products[k].id = PyIntVal(id)
                    /\ products[k].name = FieldAt(ext, <<1, id, 1>>)
                    /\ products[k].version = FieldAt(ext, <<1, id, 2>>)
                    /\ products[k].arch = FieldAt(ext, <<1, id, 3>>)
                    /\ products[k].provided_tags =
                           ExpectedTags(FieldAt(ext, <<1, id, 4>>))
    /\ (Called /\ MajorOne /\ Len(frame.extensions) = 1
          /\ HasOid(frame.extensions, <<1, 1, 1>>)) =>
         /\ HasProducts
         /\ result.value.class = "ProductCertificate1"
         /\ Len(result.value.products.v) = 1
         /\ result.value.products.v[1].id = PyIntVal(1)
         /\ result.value.products.v[1].name =
                PyStr(<<"A", "w", "e", "s", "o", "m", "e", " ", "O", "S">>)

\* Two products, found in an order that is not the order of their ids, the
\* second of them with provided tags.
C9_Witness ==
    /\ HasProducts
    /\ Len(result.value.products.v) = 2
    /\ result.value.products.v[1].id = PyIntVal(2)
    /\ result.value.products.v[2].id = PyIntVal(1)
    /\ Len(result.value.products.v[2].provided_tags.v) = 2

\* The string fields of Content and their paths under 2.<id>.1.
ContentStringFields ==
    <<<<"name", 1>>, <<"label", 2>>, <<"vendor", 5>>, <<"url", 6>>,
      <<"gpg", 7>>, <<"metadata_expire", 9>>>>

\* The integer fields of Content and their paths under 2.<id>.1.
ContentIntFields == <<<<"quantity", 3>>, <<"flex_quantity", 4>>>>

\* The k-th content match in tree order.
NthContent(ext, k) ==
    CHOOSE i \in ContentMatches(ext) :
        Cardinality({j \in ContentMatches(ext) : j < i}) = k - 1

\* A field that is present, not empty and not an integer literal.
NonIntegerAt(ext, oid) ==
    /\ HasOid(ext, oid)
    /\ ValueAt(ext, oid) # <<>>
    /\ int(ValueAt(ext, oid)).status = "raised"

\* Some content entry of the tree carries a present field that Content
\* rejects: an enabled flag other than "0"/"1" or a non-integer quantity.
PresentFieldInvalid(ext) ==
    \E i \in ContentMatches(ext) :
        \/ InvalidEnabledAt(ext, i)
        \/ \E k \in 1..Len(ContentIntFields) :
              NonIntegerAt(ext, <<2, ext[i].oid[2], 1, ContentIntFields[k][2]>>)

\* C11: absence of optional fields never raises.  A major-version-1 create
\* call fails only on an entitlement tree with a content field that is
\* present and invalid, never on a missing field; in what it returns every
\* missing Order, Product and Content string field (and quantity) is None,
\* every missing tag field is the empty list and a missing enabled flag
\* decodes to true.  An entitlement tree holding only the order name 4.1
\* gives an entitlement certificate with no content and no products.
C11_AbsenceNeverRaises ==
    (Called /\ MajorOne) =>
        LET ext == frame.extensions
        IN /\ result.status = "raised" =>
                HasOid(ext, <<4, 1>>) /\ PresentFieldInvalid(ext)
           /\ IsEntitlement =>
                LET order == result.value.order
                    contents == result.value.content.v
                IN /\ \A k \in 1..Len(OrderStringFields) :
                        ~HasOid(ext, <<4, OrderStringFields[k][2]>>) =>
                            order[OrderStringFields[k][1]] = None
                   /\ ~HasOid(ext, <<4, 5>>) => order.quantity = None
                   /\ Len(contents) = Cardinality(ContentMatches(ext))
                   /\ \A n \in 1..Len(contents) :
                        LET id == ext[NthContent(ext, n)].oid[2]
                        IN /\ \A k \in 1..Len(ContentStringFields) :
                                ~HasOid(ext, <<2, id, 1, ContentStringFields[k][2]>>) =>
                                    contents[n][ContentStringFields[k][1]] = None
                           /\ \A k \in 1..Len(ContentIntFields) :
                                ~HasOid(ext, <<2, id, 1, ContentIntFields[k][2]>>) =>
                                    contents[n][ContentIntFields[k][1]] = None
                           /\ ~HasOid(ext, <<2, id, 1, 8>>) =>
                                contents[n].enabled = PyBool(TRUE)
                           /\ ~HasOid(ext, <<2, id, 1, 10>>) =>
                                contents[n].required_tags = PyList(<<>>)
           /\ HasProducts =>
                LET products == result.value.products.v
                IN \A n \in 1..Len(products) :
                     LET id == ext[NthMatch(ext, n)].oid[2]
                     IN /\ ~HasOid(ext, <<1, id, 2>>) => products[n].version = None
                        /\ ~HasOid(ext, <<1, id, 3>>) => products[n].arch = None
                        /\ ~HasOid(ext, <<1, id, 4>>) =>
                             products[n].provided_tags = PyList(<<>>)
           /\ (Len(ext) = 1 /\ HasOid(ext, <<4, 1>>)) =>
                /\ IsEntitlement
                /\ result.value.content = PyList(<<>>)
                /\ result.value.products = PyList(<<>>)
                /\ result.value.order.name = PyStr(ValueAt(ext, <<4, 1>>))

\* An entitlement returned for a tree of the order name, a content entry
\* that has only its name and a product that has only its name.
C11_Witness ==
    /\ Called /\ MajorOne /\ IsEntitlement
    /\ Len(frame.extensions) = 3
    /\ HasOid(frame.extensions, <<2, 1, 1, 1>>)
    /\ HasOid(frame.extensions, <<1, 2, 1>>)
    /\ Len(result.value.content.v) = 1
    /\ result.value.content.v[1].enabled = PyBool(TRUE)
    /\ result.value.content.v[1].quantity = None
    /\ result.value.content.v[1].required_tags = PyList(<<>>)
    /\ Len(result.value.products.v) = 1
    /\ result.value.products.v[1].provided_tags = PyList(<<>>)
    /\ result.value.order.number = None

\* C12: every certificate create returns, whatever its class, carries in
\* its version field the Version create computed from the tree (that of
\* "1.0" when the tree has no version field), never an unset version,
\* together with the serial number and the validity start and end read from
\* the raw handle.
C12_EveryCertificateCarriesVersion ==
    (Called /\ result.status = "returned" /\ IsCertificate(result.value)) =>
        LET core == result.value.core
        IN /\ frame.version.status = "returned"
           /\ core.version # None
           /\ core.version = frame.version.value
           /\ ~HasOid(frame.extensions, <<6>>) =>
                core.version = Version(<<"1", ".", "0">>).value
           /\ core.serial = x509.serial
           /\ core.start = get_datetime_from_x509(x509.not_before)
           /\ core.end = get_datetime_from_x509(x509.not_after)

----------------------------------------------------------------------------
(* Properties of validity *)

Asked == answer # None /\ on_date # None

\* C10: with T the date asked about, a certificate with start = T - 1 day and
\* end = T + 1 day is valid and not expired at T, one with end = T - 1 day is
\* expired and not valid at T, and is_expired(T) is exactly end < T.
C10_ValidityByDateRange ==
    Asked =>
        LET T == on_date.v
            start == cert.start.v
            end == cert.end.v
        IN /\ answer.gmt = on_date
           /\ (start = T - Day /\ end = T + Day) =>
                /\ answer.op = "is_valid" => answer.value = TRUE
                /\ answer.op = "is_expired" => answer.value = FALSE
           /\ end = T - Day =>
                /\ answer.op = "is_valid" => answer.value = FALSE
                /\ answer.op = "is_expired" => answer.value = TRUE
           /\ answer.op = "is_expired" => (answer.value <=> end < T)

\* is_expired asked at T of a certificate that ended the day before.
C10_Witness ==
    /\ Asked
    /\ answer.op = "is_expired"
    /\ cert.end.v = on_date.v - Day
    /\ cert.start.v = on_date.v - Day - Day
    /\ answer.value = TRUE

----------------------------------------------------------------------------
(* Properties of persistence *)

\* The in-memory fields of a Certificate other than path.
OtherFields(c) == [f \in DOMAIN c \ {"path"} |-> c[f]]

\* C13: write(p) stores the certificate at p and then sets path to p,
\* changing no other field; delete(), when path is set, removes the file at
\* that path and completes without error (asked here only of a path at
\* which a file exists), and when path is unset does nothing; no write or
\* delete call changes an in-memory field other than path.
C13_PersistenceLifecycle ==
    call # None =>
        /\ OtherFields(obj) = OtherFields(call.before)
        /\ (call.op = "write" /\ call.outcome.status = "returned") =>
             /\ obj.path = call.path
             /\ files[call.path] = File(<<as_pem(obj.x509)>>)
             /\ \A q \in FilePaths \ {call.path} :
                  files[q] = call.files_before[q]
        /\ (call.op = "delete" /\ call.before.path # None
              /\ call.files_before[call.before.path].exists) =>
             /\ call.outcome = Returned(None)
             /\ ~files[call.before.path].exists
             /\ obj = call.before
        /\ (call.op = "delete" /\ call.before.path = None) =>
             /\ call.outcome = Returned(None)
             /\ files = call.files_before
             /\ obj = call.before

====
